---- MODULE Spec2Model ----
(***************************************************************************)
(* Model of the text-analysis pipeline of backend/analyzer/utils.py:       *)
(* MockAnalyzer, LLMAnalyzer, KeywordExtractor,                            *)
(* calculate_confidence_score and analyze_text_complete.                   *)
(*                                                                         *)
(* A Python str is a sequence of one-character strings.  A JSON value is a *)
(* record [t, s, l, n]: t is the type tag, s the characters of a string,   *)
(* l the items of a list (each a str), n a number.  Scores returned by     *)
(* calculate_confidence_score are integer hundredths; the                  *)
(* confidence_score of analyze_text_complete is kept in thousandths,       *)
(* because the 0.7 discount of a multiple of 0.05 is a multiple of 0.005.  *)
(***************************************************************************)
EXTENDS Integers, Sequences, FiniteSets, TLC

VARIABLES
    text,             \* the argument of analyze_text_complete / extract_keywords
    OPENAI_API_KEY,   \* settings.OPENAI_API_KEY
    num_keywords,     \* the num_keywords argument of extract_keywords
    pc,               \* position in analyze_text_complete
    content,          \* the service reply read by LLMAnalyzer.analyze_text
    primary,          \* what became of the primary analyzer in this call
    llm_result,       \* the analyzer output (a dict of JSON values)
    analysis_method,  \* "openai" or "mock" ("" before it is assigned)
    tagging,          \* what word_tokenize and pos_tag did in extract_keywords
    keywords,         \* the list extract_keywords returned
    confidence_score, \* thousandths
    result,           \* the dict analyze_text_complete returns
    error,            \* the exception that left analyze_text_complete
    calls,            \* how often each collaborator was constructed or invoked
    texts,            \* batch_analyze_texts: the validated list of texts
    loop_i,           \* batch_analyze_texts: how many texts the loop has taken
    analyses,         \* batch_analyze_texts: the records created, in order
    errors,           \* batch_analyze_texts: the error entries, in order
    objects,          \* the rows of TextAnalysis, in order of creation
    response_data     \* batch_analyze_texts: the body of the response

vars == << text, OPENAI_API_KEY, num_keywords, pc, content, primary, llm_result,
           analysis_method, tagging, keywords, confidence_score, result, error, calls,
           texts, loop_i, analyses, errors, objects, response_data >>

\* the state of batch_analyze_texts, which analyze_text_complete does not touch
batch_vars == << texts, loop_i, analyses, errors, objects, response_data >>

----------------------------------------------------------------------------
(* Characters and Python's str methods                                      *)

LowerCase == << "a", "b", "c", "d", "e", "f", "g", "h", "i", "j", "k", "l", "m",
                "n", "o", "p", "q", "r", "s", "t", "u", "v", "w", "x", "y", "z" >>

UpperCase == << "A", "B", "C", "D", "E", "F", "G", "H", "I", "J", "K", "L", "M",
                "N", "O", "P", "Q", "R", "S", "T", "U", "V", "W", "X", "Y", "Z" >>

Digits == { "0", "1", "2", "3", "4", "5", "6", "7", "8", "9" }

Whitespace == { " ", "\t", "\n" }

Lowers == { LowerCase[i] : i \in 1..26 }

Uppers == { UpperCase[i] : i \in 1..26 }

Letters == Lowers \cup Uppers

WordChars == Letters \cup Digits \cup { "_" }

ToLower == [c \in Uppers |-> LowerCase[CHOOSE i \in 1..26 : UpperCase[i] = c]]

ToUpper == [c \in Lowers |-> UpperCase[CHOOSE i \in 1..26 : LowerCase[i] = c]]

IsLetter(c) == c \in Letters

\* \w of the re module, on ASCII
IsWordChar(c) == c \in WordChars

LowerChar(c) == IF c \in Uppers THEN ToLower[c] ELSE c

UpperChar(c) == IF c \in Lowers THEN ToUpper[c] ELSE c

\* str.lower() (SubSeq yields the function as a tuple)
Lower(s) == SubSeq([i \in 1..Len(s) |-> LowerChar(s[i])], 1, Len(s))

\* str.title(): a letter that follows a non-letter is upper-cased, any other lower-cased
Title(s) ==
    SubSeq([i \in 1..Len(s) |->
               IF i = 1 \/ ~IsLetter(s[i-1]) THEN UpperChar(s[i]) ELSE LowerChar(s[i])],
           1, Len(s))

\* str.isalpha()
IsAlpha(s) == Len(s) > 0 /\ \A i \in 1..Len(s) : IsLetter(s[i])

RECURSIVE FirstNonSpace(_, _)
FirstNonSpace(s, i) ==
    IF i > Len(s) \/ s[i] \notin Whitespace THEN i ELSE FirstNonSpace(s, i + 1)

RECURSIVE LastNonSpace(_, _)
LastNonSpace(s, i) ==
    IF i < 1 \/ s[i] \notin Whitespace THEN i ELSE LastNonSpace(s, i - 1)

\* str.strip()
Strip(s) ==
    LET a == FirstNonSpace(s, 1)
        b == LastNonSpace(s, Len(s))
    IN  IF a > b THEN << >> ELSE SubSeq(s, a, b)

\* s[:n]
Prefix(s, n) == SubSeq(s, 1, IF Len(s) < n THEN Len(s) ELSE n)

MinOf(S) == CHOOSE x \in S : \A y \in S : x <= y

MaxOf(S) == CHOOSE x \in S : \A y \in S : x >= y

\* the end of the run of non-whitespace characters that starts at i
ChunkEnd(s, i) == MinOf({ j \in i..Len(s) : j = Len(s) \/ s[j+1] \in Whitespace })

RECURSIVE SplitFrom(_, _)
SplitFrom(s, i) ==
    LET a == FirstNonSpace(s, i)
    IN  IF a > Len(s) THEN << >>
        ELSE LET b == ChunkEnd(s, a)
             IN  << SubSeq(s, a, b) >> \o SplitFrom(s, b + 1)

\* str.split(): the maximal runs of non-whitespace characters
Split(s) == SplitFrom(s, 1)

RECURSIVE Join(_, _)
\* sep.join(parts)
Join(parts, sep) ==
    IF Len(parts) = 0 THEN << >>
    ELSE IF Len(parts) = 1 THEN parts[1]
    ELSE parts[1] \o sep \o Join(Tail(parts), sep)

\* sub in s
Contains(s, sub) ==
    \E i \in 1..(Len(s) - Len(sub) + 1) : \A j \in 1..Len(sub) : s[i + j - 1] = sub[j]

Min(a, b) == IF a < b THEN a ELSE b

Max(a, b) == IF a > b THEN a ELSE b

----------------------------------------------------------------------------
(* JSON values and the dict an analyzer returns                             *)

Missing == [t |-> "missing", s |-> << >>, l |-> << >>, n |-> 0]

Null == [t |-> "null", s |-> << >>, l |-> << >>, n |-> 0]

Str(chars) == [t |-> "str", s |-> chars, l |-> << >>, n |-> 0]

List(items) == [t |-> "list", s |-> << >>, l |-> items, n |-> 0]

Num(k) == [t |-> "num", s |-> << >>, l |-> << >>, n |-> k]

Keys == { "summary", "title", "topics", "sentiment" }

\* the empty dict
EmptyDict == [k \in Keys |-> Missing]

Dict(summary, title, topics, sentiment) ==
    [k \in Keys |-> CASE k = "summary" -> summary
                      [] k = "title" -> title
                      [] k = "topics" -> topics
                      [] k = "sentiment" -> sentiment]

\* dict.get(key, default)
Get(d, key, default) == IF d[key].t = "missing" THEN default ELSE d[key]

\* bool(v)
Truthy(v) ==
    CASE v.t = "str" -> v.s # << >>
      [] v.t = "list" -> v.l # << >>
      [] v.t = "num" -> v.n # 0
      [] OTHER -> FALSE

\* whether len(v) is defined
HasLen(v) == v.t \in { "str", "list" }

\* len(v)
PyLen(v) == IF v.t = "str" THEN Len(v.s) ELSE Len(v.l)

neutral == << "n", "e", "u", "t", "r", "a", "l" >>

positive == << "p", "o", "s", "i", "t", "i", "v", "e" >>

negative == << "n", "e", "g", "a", "t", "i", "v", "e" >>

general == << "g", "e", "n", "e", "r", "a", "l" >>

----------------------------------------------------------------------------
(* MockAnalyzer                                                             *)

sample_topics ==
    <<
       << <<"t", "e", "c", "h", "n", "o", "l", "o", "g", "y">>,
          <<"i", "n", "n", "o", "v", "a", "t", "i", "o", "n">>,
          <<"d", "i", "g", "i", "t", "a", "l">> >>,
       << <<"h", "e", "a", "l", "t", "h">>,
          <<"w", "e", "l", "l", "n", "e", "s", "s">>,
          <<"m", "e", "d", "i", "c", "a", "l">> >>,
       << <<"b", "u", "s", "i", "n", "e", "s", "s">>,
          <<"e", "c", "o", "n", "o", "m", "y">>,
          <<"f", "i", "n", "a", "n", "c", "e">> >>,
       << <<"e", "d", "u", "c", "a", "t", "i", "o", "n">>,
          <<"l", "e", "a", "r", "n", "i", "n", "g">>,
          <<"k", "n", "o", "w", "l", "e", "d", "g", "e">> >>,
       << <<"e", "n", "v", "i", "r", "o", "n", "m", "e", "n", "t">>,
          <<"s", "u", "s", "t", "a", "i", "n", "a", "b", "i", "l", "i", "t", "y">>,
          <<"c", "l", "i", "m", "a", "t", "e">> >>,
       << <<"s", "c", "i", "e", "n", "c", "e">>,
          <<"r", "e", "s", "e", "a", "r", "c", "h">>,
          <<"d", "i", "s", "c", "o", "v", "e", "r", "y">> >>,
       << <<"c", "u", "l", "t", "u", "r", "e">>,
          <<"s", "o", "c", "i", "e", "t", "y">>,
          <<"c", "o", "m", "m", "u", "n", "i", "t", "y">> >>,
       << <<"a", "r", "t">>,
          <<"c", "r", "e", "a", "t", "i", "v", "i", "t", "y">>,
          <<"d", "e", "s", "i", "g", "n">> >>,
       << <<"t", "r", "a", "v", "e", "l">>,
          <<"a", "d", "v", "e", "n", "t", "u", "r", "e">>,
          <<"e", "x", "p", "l", "o", "r", "a", "t", "i", "o", "n">> >>,
       << <<"f", "o", "o", "d">>,
          <<"c", "o", "o", "k", "i", "n", "g">>,
          <<"n", "u", "t", "r", "i", "t", "i", "o", "n">> >>
    >>

positive_keywords ==
    << <<"e", "x", "c", "e", "l", "l", "e", "n", "t">>,
       <<"a", "m", "a", "z", "i", "n", "g">>,
       <<"g", "r", "e", "a", "t">>,
       <<"w", "o", "n", "d", "e", "r", "f", "u", "l">>,
       <<"f", "a", "n", "t", "a", "s", "t", "i", "c">>,
       <<"o", "u", "t", "s", "t", "a", "n", "d", "i", "n", "g">>,
       <<"b", "r", "i", "l", "l", "i", "a", "n", "t">>,
       <<"s", "u", "p", "e", "r", "b">>,
       <<"i", "n", "c", "r", "e", "d", "i", "b", "l", "e">>,
       <<"r", "e", "m", "a", "r", "k", "a", "b", "l", "e">> >>

negative_keywords ==
    << <<"t", "e", "r", "r", "i", "b", "l", "e">>,
       <<"a", "w", "f", "u", "l">>,
       <<"h", "o", "r", "r", "i", "b", "l", "e">>,
       <<"d", "i", "s", "a", "p", "p", "o", "i", "n", "t", "i", "n", "g">>,
       <<"f", "r", "u", "s", "t", "r", "a", "t", "i", "n", "g">>,
       <<"c", "o", "n", "c", "e", "r", "n", "i", "n", "g">>,
       <<"p", "r", "o", "b", "l", "e", "m", "a", "t", "i", "c">>,
       <<"d", "i", "f", "f", "i", "c", "u", "l", "t">>,
       <<"c", "h", "a", "l", "l", "e", "n", "g", "i", "n", "g">>,
       <<"n", "e", "g", "a", "t", "i", "v", "e">> >>

MockTitleWords == 5

MockTitleMax == 50

MockTitleCut == 47

Ellipsis == << ".", ".", "." >>

MockShortText == 50

MockMediumText == 200

\* sum(1 for word in words if word in text_lower)
CountHits(words, text_lower) ==
    Cardinality({ i \in 1..Len(words) : Contains(text_lower, words[i]) })

\* MockTitle cutting at 50 before the ellipsis: title[:50] + "..."
MockTitleCutLate(txt) ==
    LET words == Prefix(Split(txt), MockTitleWords)
        title == Title(Join(words, << " " >>))
    IN  IF Len(title) > MockTitleMax THEN Prefix(title, MockTitleMax) \o Ellipsis
        ELSE title

MockTitle(txt) ==
    LET words == Prefix(Split(txt), MockTitleWords)
        title == Title(Join(words, << " " >>))
    IN  IF Len(title) > MockTitleMax THEN Prefix(title, MockTitleCut) \o Ellipsis
        ELSE title

MockSummary(txt, title) ==
    IF Len(txt) < MockShortText
    THEN << "T", "h", "i", "s", " ", "t", "e", "x", "t", " ", "d", "i", "s", "c", "u", "s", "s", "e", "s", " " >>
         \o Lower(title)
         \o << " ", "a", "n", "d", " ", "p", "r", "o", "v", "i", "d", "e", "s", " ", "b", "r", "i", "e", "f", " ", "i", "n", "f", "o", "r", "m", "a", "t", "i", "o", "n", " ", "o", "n", " ", "t", "h", "e", " ", "t", "o", "p", "i", "c", "." >>
    ELSE IF Len(txt) < MockMediumText
    THEN << "T", "h", "e", " ", "c", "o", "n", "t", "e", "n", "t", " ", "c", "o", "v", "e", "r", "s", " " >>
         \o Lower(title)
         \o << " ", "a", "n", "d", " ", "e", "x", "p", "l", "o", "r", "e", "s", " ", "k", "e", "y", " ", "a", "s", "p", "e", "c", "t", "s", " ", "o", "f", " ", "t", "h", "e", " ", "s", "u", "b", "j", "e", "c", "t", " ", "m", "a", "t", "t", "e", "r", "." >>
    ELSE << "T", "h", "i", "s", " ", "c", "o", "m", "p", "r", "e", "h", "e", "n", "s", "i", "v", "e", " ", "t", "e", "x", "t", " ", "a", "b", "o", "u", "t", " " >>
         \o Lower(title)
         \o << " ", "p", "r", "o", "v", "i", "d", "e", "s", " ", "d", "e", "t", "a", "i", "l", "e", "d", " ", "i", "n", "s", "i", "g", "h", "t", "s", " ", "a", "n", "d", " ", "a", "n", "a", "l", "y", "s", "i", "s", " ", "o", "n", " ", "t", "h", "e", " ", "t", "o", "p", "i", "c", "." >>

\* MockSentiment with >= for >: a tie is positive
MockSentimentTiesPositive(txt) ==
    LET text_lower == Lower(txt)
        positive_count == CountHits(positive_keywords, text_lower)
        negative_count == CountHits(negative_keywords, text_lower)
    IN  IF positive_count >= negative_count THEN positive
        ELSE IF negative_count > positive_count THEN negative
        ELSE neutral

MockSentiment(txt) ==
    LET text_lower == Lower(txt)
        positive_count == CountHits(positive_keywords, text_lower)
        negative_count == CountHits(negative_keywords, text_lower)
    IN  IF positive_count > negative_count THEN positive
        ELSE IF negative_count > positive_count THEN negative
        ELSE neutral

\* MockAnalyzer.analyze_text(text), bucket being the index random.choice drew
MockAnalyze(txt, bucket) ==
    LET title == MockTitle(txt)
    IN  Dict(Str(MockSummary(txt, title)), Str(title),
             List(sample_topics[bucket]), Str(MockSentiment(txt)))

----------------------------------------------------------------------------
(* calculate_confidence_score, in hundredths                                *)

MinTextLen == 10

LongTextLen == 100

VeryLongTextLen == 500

MinSummaryLen == 20

\* the summary term; "AttributeError" when summary is truthy and has no strip()
SummaryTerm(d) ==
    LET summary == Get(d, "summary", Str(<< >>))
    IN  IF ~Truthy(summary) THEN 0
        ELSE IF summary.t # "str" THEN -1
        ELSE IF Len(Strip(summary.s)) > MinSummaryLen THEN 20 ELSE 0

\* TitleTerm testing "is not None" instead of the truth value
TitleTermNonNull(d) == IF Get(d, "title", Null).t # "null" THEN 10 ELSE 0

\* if llm_result.get("title"): score += 0.1
TitleTerm(d) == IF Truthy(Get(d, "title", Null)) THEN 10 ELSE 0

\* TopicsTerm with the elif one off: a single topic earns the 0.05
TopicsTermOne(d) ==
    LET topics == Get(d, "topics", List(<< >>))
    IN  IF ~HasLen(topics) THEN -1
        ELSE IF PyLen(topics) >= 3 THEN 10
        ELSE IF PyLen(topics) >= 1 THEN 5
        ELSE 0

\* the topics term; -1 stands for the TypeError of len() on a value without length
TopicsTerm(d) ==
    LET topics == Get(d, "topics", List(<< >>))
    IN  IF ~HasLen(topics) THEN -1
        ELSE IF PyLen(topics) >= 3 THEN 10
        ELSE IF PyLen(topics) >= 2 THEN 5
        ELSE 0

KeywordsTerm(kws) ==
    IF Len(kws) >= 3 THEN 10
    ELSE IF Len(kws) >= 2 THEN 5
    ELSE 0

SentimentTerm(d) ==
    IF Get(d, "sentiment", Str(neutral)) # Str(neutral) THEN 10 ELSE 0

TextTerm(txt) ==
    LET text_length == Len(Strip(txt))
    IN  (IF Len(txt) > 0 /\ text_length > MinTextLen THEN 20 ELSE 0)
        + (IF text_length > LongTextLen THEN 10 ELSE 0)
        + (IF text_length > VeryLongTextLen THEN 10 ELSE 0)

\* [raised |-> the exception ("" when it returns), score |-> the returned value]
calculate_confidence_score(txt, d, kws) ==
    IF SummaryTerm(d) < 0 THEN [raised |-> "AttributeError", score |-> 0]
    ELSE IF TopicsTerm(d) < 0 THEN [raised |-> "TypeError", score |-> 0]
    ELSE LET score == TextTerm(txt) + SummaryTerm(d) + TitleTerm(d) + TopicsTerm(d)
                      + KeywordsTerm(kws) + SentimentTerm(d)
         IN  [raised |-> "", score |-> Min(Max(score, 0), 100)]

----------------------------------------------------------------------------
(* KeywordExtractor                                                         *)

\* stopwords.words('english'), restricted to the words the model's texts use
stop_words ==
    { << "t", "h", "e" >>, << "a", "n", "d" >>, << "i", "s" >>, << "a" >>,
      << "v", "e", "r", "y" >> }

DefaultNumKeywords == 3

MinKeywordLen == 2

RegexMinLen == 3

\* word_tokenize(s) for a text of letters, digits and whitespace: its chunks
word_tokenize(s) == Split(s)

\* the end of the run of letters that starts at i
LetterRunEnd(s, i) == MinOf({ j \in i..Len(s) : j = Len(s) \/ ~IsLetter(s[j+1]) })

RECURSIVE FindAllFrom(_, _)
FindAllFrom(s, i) ==
    IF i > Len(s) THEN << >>
    ELSE IF IsLetter(s[i]) /\ (i = 1 \/ ~IsWordChar(s[i-1]))
    THEN LET j == LetterRunEnd(s, i)
         IN  IF j - i + 1 >= RegexMinLen /\ (j = Len(s) \/ ~IsWordChar(s[j+1]))
             THEN << SubSeq(s, i, j) >> \o FindAllFrom(s, j + 1)
             ELSE FindAllFrom(s, j + 1)
    ELSE FindAllFrom(s, i + 1)

\* re.findall(r'\b[a-zA-Z]{3,}\b', s)
RegexWords(s) == FindAllFrom(s, 1)

\* Counter(words)[w]
Count(words, w) == Cardinality({ i \in 1..Len(words) : words[i] = w })

\* the keys of Counter(words), in insertion order
RECURSIVE CounterKeys(_)
CounterKeys(words) ==
    IF Len(words) = 0 THEN << >>
    ELSE LET init == SubSeq(words, 1, Len(words) - 1)
             last == words[Len(words)]
         IN  IF \E i \in 1..Len(init) : init[i] = last
             THEN CounterKeys(init)
             ELSE Append(CounterKeys(init), last)

\* InsertByCount with an unstable sort: w goes before the keys that count as much
InsertByCountLast(sorted, w, words) ==
    LET before == { i \in 1..Len(sorted) : Count(words, sorted[i]) > Count(words, w) }
        k == Cardinality(before)
    IN  SubSeq(sorted, 1, k) \o << w >> \o SubSeq(sorted, k + 1, Len(sorted))

\* where w goes in a list sorted by descending count: after every key that
\* counts at least as much (the sort is stable)
InsertByCount(sorted, w, words) ==
    LET before == { i \in 1..Len(sorted) : Count(words, sorted[i]) >= Count(words, w) }
        k == Cardinality(before)
    IN  SubSeq(sorted, 1, k) \o << w >> \o SubSeq(sorted, k + 1, Len(sorted))

RECURSIVE SortByCount(_, _)
SortByCount(keys, words) ==
    IF Len(keys) = 0 THEN << >>
    ELSE InsertByCount(SortByCount(SubSeq(keys, 1, Len(keys) - 1), words),
                       keys[Len(keys)], words)

\* [word for word, count in Counter(words).most_common(n)]
MostCommon(words, n) == Prefix(SortByCount(CounterKeys(words), words), n)

\* the noun filter of the part-of-speech path; nouns is the set of token
\* positions pos_tag tagged NN, NNS, NNP or NNPS
NounFilter(tokens, nouns) ==
    LET keep == { i \in 1..Len(tokens) :
                    /\ i \in nouns
                    /\ IsAlpha(tokens[i])
                    /\ Len(tokens[i]) > MinKeywordLen
                    /\ tokens[i] \notin stop_words }
        F[i \in 0..Len(tokens)] ==
            IF i = 0 THEN << >>
            ELSE IF i \in keep THEN Append(F[i-1], tokens[i]) ELSE F[i-1]
    IN  F[Len(tokens)]

\* the stopword filter of the regex path
StopFilter(words) ==
    LET F[i \in 0..Len(words)] ==
            IF i = 0 THEN << >>
            ELSE IF words[i] \notin stop_words THEN Append(F[i-1], words[i]) ELSE F[i-1]
    IN  F[Len(words)]

\* the list the try block filters and counts
PosNouns(txt, nouns) == NounFilter(word_tokenize(Lower(txt)), nouns)

\* the list the except block filters and counts
RegexNouns(txt) == StopFilter(RegexWords(Lower(txt)))

\* KeywordExtractor.extract_keywords(text, num_keywords); tagged is what the
\* tokenizer and tagger did: raised, or tagged the positions in nouns as nouns
extract_keywords(txt, n, tagged) ==
    IF tagged.raised THEN MostCommon(RegexNouns(txt), n)
    ELSE MostCommon(PosNouns(txt, tagged.nouns), n)

\* what the tokenizer and tagger can do on a text
Taggings(txt) ==
    { [raised |-> TRUE, nouns |-> {}] }
    \cup { [raised |-> FALSE, nouns |-> S] :
             S \in SUBSET (1..Len(word_tokenize(Lower(txt)))) }

----------------------------------------------------------------------------
(* LLMAnalyzer                                                              *)

Placeholder == "your_openai_api_key_here"

\* Unconfigured without the comparison with the placeholder
UnconfiguredNoPlaceholder(key) == key = "None" \/ key = ""

\* LLMAnalyzer.__init__ raises ValueError for this key
Unconfigured(key) == key = "None" \/ key = "" \/ key = Placeholder

KeyChars(k) ==
    CASE k = "summary" -> << "s", "u", "m", "m", "a", "r", "y" >>
      [] k = "title" -> << "t", "i", "t", "l", "e" >>
      [] k = "topics" -> << "t", "o", "p", "i", "c", "s" >>
      [] k = "sentiment" -> << "s", "e", "n", "t", "i", "m", "e", "n", "t" >>

KeyOrder == << "summary", "title", "topics", "sentiment" >>

Quoted(chars) == << "\"" >> \o chars \o << "\"" >>

DigitChars == << "0", "1", "2", "3", "4", "5", "6", "7", "8", "9" >>

\* the JSON text of a value
ValueText(v) ==
    CASE v.t = "null" -> << "n", "u", "l", "l" >>
      [] v.t = "str" -> Quoted(v.s)
      [] v.t = "num" -> << DigitChars[v.n + 1] >>
      [] v.t = "list" ->
            << "[" >> \o Join([i \in 1..Len(v.l) |-> Quoted(v.l[i])], << ",", " " >>)
            \o << "]" >>

\* the JSON text of the members of an object, without the braces
MembersText(d) ==
    LET F[i \in 0..Len(KeyOrder)] ==
            IF i = 0 THEN << >>
            ELSE IF d[KeyOrder[i]].t = "missing" THEN F[i-1]
            ELSE Append(F[i-1], Quoted(KeyChars(KeyOrder[i])) \o << ":", " " >>
                                \o ValueText(d[KeyOrder[i]]))
    IN  Join(F[Len(KeyOrder)], << ",", " " >>)

\* the JSON text of an object
ObjectText(d) == << "{" >> \o MembersText(d) \o << "}" >>

LongSummary == << "A", " ", "s", "u", "m", "m", "a", "r", "y", " ", "o", "f", " ", "t", "h", "e", " ", "t", "e", "x", "t", "." >>

ShortSummary == << "T", "e", "s", "t", " ", "s", "u", "m", "m", "a", "r", "y" >>

TitleT == << "T" >>

TopicItems == << << "a" >>, << "b" >>, << "c" >>, << "d" >>, << "e" >>, << "f" >> >>

Topics(n) == List([i \in 1..n |-> TopicItems[i]])

\* the objects the service's replies hold
ReplyObjects ==
    { Dict(Str(LongSummary), Str(TitleT), Topics(3), Str(positive)),
      Dict(Str(ShortSummary), Null, Topics(2), Str(neutral)),
      Dict(Str(LongSummary), Str(<< >>), Topics(3), Str(negative)),
      Dict(Str(ShortSummary), Str(TitleT), Null, Str(neutral)),
      Dict(Num(5), Str(TitleT), Topics(3), Str(neutral)),
      Dict(Null, Missing, Topics(1), Null),
      Dict(Str(LongSummary), Missing, Missing, Missing),
      EmptyDict }

\* the indices of c in s
Indices(s, c) == { i \in 1..Len(s) : s[i] = c }

\* re.search(r'\{.*\}', s, re.DOTALL): leftmost "{", and greedily to the last "}"
JsonMatch(s) ==
    LET a == IF Indices(s, "{") = {} THEN 0 ELSE MinOf(Indices(s, "{"))
        b == IF Indices(s, "}") = {} THEN 0 ELSE MaxOf(Indices(s, "}"))
    IN  IF a > 0 /\ b > a THEN [found |-> TRUE, group |-> SubSeq(s, a, b)]
        ELSE [found |-> FALSE, group |-> << >>]

\* json.loads of a text that starts with "{" and ends with "}": the object
\* whose members the text holds between its braces, whitespace around them
\* allowed; JSONDecodeError (ok = FALSE) for any other text
JsonLoads(s) ==
    LET inner == Strip(SubSeq(s, 2, Len(s) - 1))
        objs == { d \in ReplyObjects : MembersText(d) = inner }
    IN  IF objs = {} THEN [ok |-> FALSE, value |-> EmptyDict]
        ELSE [ok |-> TRUE, value |-> CHOOSE d \in objs : TRUE]

\* the dict analyze_text builds when the reply holds no match
RawTextResult(reply) == Dict(Str(reply), Null, List(<< general >>), Str(neutral))

\* LLMAnalyzer.analyze_text from re.search on: raised, or the dict returned
ParseContentOf(reply) ==
    LET json_match == JsonMatch(reply)
    IN  IF json_match.found
        THEN LET loaded == JsonLoads(json_match.group)
             IN  IF loaded.ok THEN [raised |-> FALSE, value |-> loaded.value]
                 ELSE [raised |-> TRUE, value |-> EmptyDict]
        ELSE [raised |-> FALSE, value |-> RawTextResult(reply)]

----------------------------------------------------------------------------
(* The inputs                                                               *)

MaxCallWords == 2

MaxReplyPieces == 3

MaxKwWords == 3

MaxCount == 3

MaxTopics == 3

MaxKeywords == 3

MaxMockWords == 6

\* the sequences over S of length at most n
SeqsUpTo(S, n) == UNION { [1..k -> S] : k \in 0..n }

\* c repeated n times
Rep(c, n) == SubSeq([i \in 1..n |-> c], 1, n)

RECURSIVE Concat(_)
Concat(parts) == IF Len(parts) = 0 THEN << >> ELSE parts[1] \o Concat(Tail(parts))

\* the words joined by single spaces, with whitespace around them when padded
TextOf(words, padded) ==
    IF padded THEN << " " >> \o Join(words, << " " >>) \o << "\n" >>
    ELSE Join(words, << " " >>)

\* words of 2, 5, 60 and 450 characters: texts on both sides of every length
\* threshold of the scorer and of the fallback analyzer, with and without a
\* word of the sentiment lists
CallWords == { << "o", "k" >>, << "G", "r", "e", "a", "t" >>, Rep("x", 60), Rep("y", 450) }

CallTexts == { TextOf(ws, p) : ws \in SeqsUpTo(CallWords, MaxCallWords), p \in BOOLEAN }

ApiKeys == { "None", "", Placeholder, "sk-live" }

FullObject == Dict(Str(LongSummary), Str(TitleT), Topics(3), Str(positive))

PlainObject == Dict(Str(ShortSummary), Null, Topics(2), Str(neutral))

ReplyPieces ==
    { << " " >>, << "S", "u", "r", "e" >>, << "{" >>, << "}" >>,
      ObjectText(FullObject), ObjectText(PlainObject) }

\* what the service can reply: up to MaxReplyPieces pieces of free text, braces
\* and JSON objects one after the other, or any one object of ReplyObjects
Replies ==
    { Concat(ps) : ps \in SeqsUpTo(ReplyPieces, MaxReplyPieces) }
    \cup { ObjectText(d) : d \in ReplyObjects }

\* words for the keyword extractor: too short, a stopword, mixed case, with a digit
KwWords ==
    { << "o", "x" >>, << "t", "h", "e" >>, << "c", "a", "t", "s" >>,
      << "D", "o", "g", "s" >>, << "a", "1", "b", "c" >> }

KwTexts == { TextOf(ws, p) : ws \in SeqsUpTo(KwWords, MaxKwWords), p \in BOOLEAN }

\* words for the fallback analyzer: a negative word in mixed case (9
\* characters), a positive word after a digit (10 characters) and a short
\* positive word; five words of 9 and 10 characters join to 49..54 characters
MockWords ==
    { << "D", "i", "f", "f", "i", "c", "u", "l", "t" >>,
      << "2", "e", "x", "c", "e", "l", "l", "e", "n", "t" >>,
      << "g", "r", "e", "a", "t" >> }

\* the words separated by a newline and a space
MockTexts ==
    { Join(ws, << "\n", " " >>) : ws \in SeqsUpTo(MockWords, MaxMockWords) \ { << >> } }

\* analyzer outputs for the scorer: every combination of these values
ScoreDicts ==
    { Dict(su, ti, to, se) :
        su \in { Missing, Null, Str(<< >>), Str(ShortSummary), Str(LongSummary), Num(5) },
        ti \in { Missing, Null, Str(<< >>), Str(TitleT), Num(5) },
        to \in { Missing, Null } \cup { Topics(n) : n \in 0..MaxTopics },
        se \in { Missing, Str(neutral), Str(positive) } }

KeywordItems ==
    << << "o", "n", "e" >>, << "t", "w", "o" >>, << "s", "i", "x" >>,
       << "t", "e", "n" >>, << "f", "e", "w" >> >>

KeywordLists == { [i \in 1..n |-> KeywordItems[i]] : n \in 0..MaxKeywords }

----------------------------------------------------------------------------
(* analyze_text_complete                                                    *)

NoCalls ==
    [KeywordExtractor |-> 0, LLMAnalyzer |-> 0, request |-> 0, MockAnalyzer |-> 0,
     extract_keywords |-> 0, calculate_confidence_score |-> 0]

Called(name) == [calls EXCEPT ![name] = @ + 1]

NoTagging == [raised |-> FALSE, nouns |-> {}]

NoResult ==
    [summary |-> Missing, title |-> Missing, topics |-> Missing, sentiment |-> Missing,
     keywords |-> << >>, confidence_score |-> 0, analysis_method |-> ""]

NoResponse ==
    [analyses |-> << >>, total_processed |-> 0, total_requested |-> 0,
     success_count |-> 0, error_count |-> 0, errors |-> << >>]

\* no batch request is being served
NoBatch ==
    /\ texts = << >>
    /\ loop_i = 0
    /\ analyses = << >>
    /\ errors = << >>
    /\ objects = << >>
    /\ response_data = NoResponse

Init ==
    /\ text \in CallTexts
    /\ OPENAI_API_KEY \in ApiKeys
    /\ num_keywords = DefaultNumKeywords
    /\ pc = "start"
    /\ content = << >>
    /\ primary = ""
    /\ llm_result = EmptyDict
    /\ analysis_method = ""
    /\ tagging = NoTagging
    /\ keywords = << >>
    /\ confidence_score = 0
    /\ result = NoResult
    /\ error = ""
    /\ calls = NoCalls
    /\ NoBatch

\* CheckInput with "if not text:" alone, the text not stripped
CheckInputUnstripped ==
    /\ pc = "start"
    /\ IF Len(text) = 0
       THEN /\ pc' = "raised"
            /\ error' = "ValueError"
            /\ calls' = calls
       ELSE /\ pc' = "try"
            /\ error' = error
            /\ calls' = Called("KeywordExtractor")
    /\ UNCHANGED batch_vars
    /\ UNCHANGED << text, OPENAI_API_KEY, num_keywords, content, primary, llm_result,
                    analysis_method, tagging, keywords, confidence_score, result >>

\* if not text or not text.strip(): raise ValueError("Empty input text")
\* keyword_extractor = KeywordExtractor()
CheckInput ==
    /\ pc = "start"
    /\ IF Len(text) = 0 \/ Len(Strip(text)) = 0
       THEN /\ pc' = "raised"
            /\ error' = "ValueError"
            /\ calls' = calls
       ELSE /\ pc' = "try"
            /\ error' = error
            /\ calls' = Called("KeywordExtractor")
    /\ UNCHANGED batch_vars
    /\ UNCHANGED << text, OPENAI_API_KEY, num_keywords, content, primary, llm_result,
                    analysis_method, tagging, keywords, confidence_score, result >>

\* llm_analyzer = LLMAnalyzer(): ValueError when the key is not configured
ConstructLLM ==
    /\ pc = "try"
    /\ calls' = Called("LLMAnalyzer")
    /\ IF Unconfigured(OPENAI_API_KEY)
       THEN /\ pc' = "except"
            /\ primary' = "init_failed"
       ELSE /\ pc' = "call"
            /\ primary' = primary
    /\ UNCHANGED batch_vars
    /\ UNCHANGED << text, OPENAI_API_KEY, num_keywords, content, llm_result,
                    analysis_method, tagging, keywords, confidence_score, result, error >>

\* llm_analyzer.analyze_text(text), the request failing (or the reply holding
\* no content): the exception is re-raised as Exception
RequestFails ==
    /\ pc = "call"
    /\ calls' = Called("request")
    /\ pc' = "except"
    /\ primary' = "call_failed"
    /\ UNCHANGED batch_vars
    /\ UNCHANGED << text, OPENAI_API_KEY, num_keywords, content, llm_result,
                    analysis_method, tagging, keywords, confidence_score, result, error >>

\* llm_analyzer.analyze_text(text), the service replying:
\* content = response.choices[0].message.content.strip()
RequestReplies ==
    /\ pc = "call"
    /\ calls' = Called("request")
    /\ \E reply \in Replies : content' = Strip(reply)
    /\ pc' = "parse"
    /\ UNCHANGED batch_vars
    /\ UNCHANGED << text, OPENAI_API_KEY, num_keywords, primary, llm_result,
                    analysis_method, tagging, keywords, confidence_score, result, error >>

\* the rest of analyze_text: the reply is parsed and the dict returned, then
\* analysis_method = "openai"; or json.loads raised and the except clause is
\* entered.  content is a local of analyze_text and is gone afterwards.
ParseContent ==
    /\ pc = "parse"
    /\ LET parsed == ParseContentOf(content)
       IN  IF parsed.raised
           THEN /\ pc' = "except"
                /\ primary' = "call_failed"
                /\ UNCHANGED << llm_result, analysis_method >>
           ELSE /\ pc' = "keywords"
                /\ primary' = "ok"
                /\ llm_result' = parsed.value
                /\ analysis_method' = "openai"
    /\ content' = << >>
    /\ UNCHANGED batch_vars
    /\ UNCHANGED << text, OPENAI_API_KEY, num_keywords, tagging, keywords,
                    confidence_score, result, error, calls >>

\* Fallback with one more attempt on the primary analyzer before the mock one
FallbackRetriesPrimary ==
    /\ pc = "except"
    /\ IF calls.LLMAnalyzer < 2
       THEN /\ pc' = "try"
            /\ UNCHANGED << calls, llm_result, analysis_method >>
       ELSE /\ calls' = Called("MockAnalyzer")
            /\ \E bucket \in 1..Len(sample_topics) : llm_result' = MockAnalyze(text, bucket)
            /\ analysis_method' = "mock"
            /\ pc' = "keywords"
    /\ UNCHANGED batch_vars
    /\ UNCHANGED << text, OPENAI_API_KEY, num_keywords, content, primary, tagging,
                    keywords, confidence_score, result, error >>

\* except: llm_analyzer = MockAnalyzer(); llm_result = llm_analyzer.analyze_text(text)
Fallback ==
    /\ pc = "except"
    /\ calls' = Called("MockAnalyzer")
    /\ \E bucket \in 1..Len(sample_topics) : llm_result' = MockAnalyze(text, bucket)
    /\ analysis_method' = "mock"
    /\ pc' = "keywords"
    /\ UNCHANGED batch_vars
    /\ UNCHANGED << text, OPENAI_API_KEY, num_keywords, content, primary, tagging,
                    keywords, confidence_score, result, error >>

\* keywords = keyword_extractor.extract_keywords(text)
ExtractKeywords ==
    /\ pc = "keywords"
    /\ calls' = Called("extract_keywords")
    /\ \E tagged \in Taggings(text) :
          /\ tagging' = tagged
          /\ keywords' = extract_keywords(text, num_keywords, tagged)
    /\ pc' = "score"
    /\ UNCHANGED batch_vars
    /\ UNCHANGED << text, OPENAI_API_KEY, num_keywords, content, primary, llm_result,
                    analysis_method, confidence_score, result, error >>

\* Adjusted with the discount subtracted: confidence_score - 0.7
AdjustedSubtracts(score, method) ==
    IF method = "mock" THEN Min(score * 10 - 700, 800) ELSE score * 10

\* Adjusted without the adjustment of the mock path
AdjustedUndiscounted(score, method) == score * 10

\* Adjusted with the cap alone, the 0.7 multiplier left out
AdjustedCapOnly(score, method) == IF method = "mock" THEN Min(score * 10, 800) ELSE score * 10

\* confidence_score * 0.7 capped at 0.8 on the mock path; hundredths to thousandths
Adjusted(score, method) == IF method = "mock" THEN Min(score * 7, 800) ELSE score * 10

\* ResultOf with summary and title taken from each other's key
ResultOfSwapped(d, kws, score, method) ==
    [summary |-> Get(d, "title", Str(<< >>)),
     title |-> Get(d, "summary", Null),
     topics |-> Get(d, "topics", List(<< >>)),
     sentiment |-> Get(d, "sentiment", Str(neutral)),
     keywords |-> kws,
     confidence_score |-> score,
     analysis_method |-> method]

\* the dict analyze_text_complete returns
ResultOf(d, kws, score, method) ==
    [summary |-> Get(d, "summary", Str(<< >>)),
     title |-> Get(d, "title", Null),
     topics |-> Get(d, "topics", List(<< >>)),
     sentiment |-> Get(d, "sentiment", Str(neutral)),
     keywords |-> kws,
     confidence_score |-> score,
     analysis_method |-> method]

\* confidence_score = calculate_confidence_score(text, llm_result, keywords),
\* the discount of the mock path, and the dict that is returned
Score ==
    /\ pc = "score"
    /\ calls' = Called("calculate_confidence_score")
    /\ LET scored == calculate_confidence_score(text, llm_result, keywords)
           adjusted == Adjusted(scored.score, analysis_method)
       IN  IF scored.raised # ""
           THEN /\ pc' = "raised"
                /\ error' = scored.raised
                /\ UNCHANGED << confidence_score, result >>
           ELSE /\ pc' = "done"
                /\ error' = error
                /\ confidence_score' = adjusted
                /\ result' = ResultOf(llm_result, keywords, adjusted, analysis_method)
    /\ UNCHANGED batch_vars
    /\ UNCHANGED << text, OPENAI_API_KEY, num_keywords, content, primary, llm_result,
                    analysis_method, tagging, keywords >>

Next ==
    \/ CheckInput
    \/ ConstructLLM
    \/ RequestFails
    \/ RequestReplies
    \/ ParseContent
    \/ Fallback
    \/ ExtractKeywords
    \/ Score

Spec == Init /\ [][Next]_vars

----------------------------------------------------------------------------
(* extract_keywords on its own: any text, any count                         *)

InitKw ==
    /\ text \in KwTexts
    /\ OPENAI_API_KEY = "sk-live"
    /\ num_keywords \in 0..MaxCount
    /\ pc = "keywords"
    /\ content = << >>
    /\ primary = ""
    /\ llm_result = EmptyDict
    /\ analysis_method = ""
    /\ tagging = NoTagging
    /\ keywords = << >>
    /\ confidence_score = 0
    /\ result = NoResult
    /\ error = ""
    /\ calls = NoCalls
    /\ NoBatch

NextKw == ExtractKeywords

SpecKw == InitKw /\ [][NextKw]_vars

----------------------------------------------------------------------------
(* calculate_confidence_score on its own: any text, analyzer output and     *)
(* keyword list                                                             *)

InitScore ==
    /\ text \in CallTexts
    /\ OPENAI_API_KEY = "sk-live"
    /\ num_keywords = DefaultNumKeywords
    /\ pc = "score"
    /\ content = << >>
    /\ primary = "ok"
    /\ llm_result \in ScoreDicts
    /\ analysis_method = "openai"
    /\ tagging = NoTagging
    /\ keywords \in KeywordLists
    /\ confidence_score = 0
    /\ result = NoResult
    /\ error = ""
    /\ calls = NoCalls
    /\ NoBatch

NextScore == Score

SpecScore == InitScore /\ [][NextScore]_vars

----------------------------------------------------------------------------
(* MockAnalyzer.analyze_text on its own: any text with a word in it         *)

InitMock ==
    /\ text \in MockTexts
    /\ OPENAI_API_KEY = ""
    /\ num_keywords = DefaultNumKeywords
    /\ pc = "except"
    /\ content = << >>
    /\ primary = "init_failed"
    /\ llm_result = EmptyDict
    /\ analysis_method = ""
    /\ tagging = NoTagging
    /\ keywords = << >>
    /\ confidence_score = 0
    /\ result = NoResult
    /\ error = ""
    /\ calls = NoCalls
    /\ NoBatch

NextMock == Fallback

SpecMock == InitMock /\ [][NextMock]_vars

----------------------------------------------------------------------------
(* batch_analyze_texts (views.py): the loop over the validated texts        *)

MaxBatch == 2

ErrorTextMax == 100

\* the texts of a request: two different short words
BatchTextChoices == { << "o", "k" >>, << "s", "o" >> }

\* BatchAnalyzeSerializer: at least one text, none of them blank
BatchTexts == { ts \in SeqsUpTo(BatchTextChoices, MaxBatch) : Len(ts) >= 1 }

\* what the service does in one call: it fails, or it replies with an object
\* the scorer accepts, one whose topics are null, or one whose summary is null
Services ==
    { [fails |-> TRUE, reply |-> << >>] }
    \cup { [fails |-> FALSE, reply |-> ObjectText(d)] :
             d \in { FullObject,
                     Dict(Str(ShortSummary), Str(TitleT), Null, Str(neutral)),
                     Dict(Null, Missing, Topics(1), Null) } }

\* the primary analyzer is constructed, called, and returns a dict
PrimaryReturns(key, service) ==
    /\ ~Unconfigured(key)
    /\ ~service.fails
    /\ ~ParseContentOf(Strip(service.reply)).raised

\* analyze_text_complete(text) as one call: the exception it raised ("" when it
\* returned) and the dict it returned
analyze_text_complete(txt, key, service, bucket, tagged) ==
    IF Len(txt) = 0 \/ Len(Strip(txt)) = 0
    THEN [raised |-> "ValueError", value |-> NoResult]
    ELSE LET ok == PrimaryReturns(key, service)
             d == IF ok THEN ParseContentOf(Strip(service.reply)).value
                  ELSE MockAnalyze(txt, bucket)
             method == IF ok THEN "openai" ELSE "mock"
             kws == extract_keywords(txt, DefaultNumKeywords, tagged)
             scored == calculate_confidence_score(txt, d, kws)
         IN  IF scored.raised # "" THEN [raised |-> scored.raised, value |-> NoResult]
             ELSE [raised |-> "",
                   value |-> ResultOf(d, kws, Adjusted(scored.score, method), method)]

\* the row TextAnalysis.objects.create(...) stores
TextAnalysis(id, original_text, r) ==
    [id |-> id, original_text |-> original_text, summary |-> r.summary,
     title |-> r.title, topics |-> r.topics, sentiment |-> r.sentiment,
     keywords |-> r.keywords, confidence_score |-> r.confidence_score,
     analysis_method |-> r.analysis_method]

\* the exception TextAnalysis.objects.create raises ("" when the row is stored):
\* the database is down, or a column that is not nullable is given None
CreateRaises(r, db_up) ==
    IF ~db_up THEN "OperationalError"
    ELSE IF r.summary.t = "null" \/ r.topics.t = "null" \/ r.sentiment.t = "null"
    THEN "IntegrityError"
    ELSE ""

\* text[:100] + '...' if len(text) > 100 else text
ErrorText(txt) ==
    IF Len(txt) > ErrorTextMax THEN SubSeq(txt, 1, ErrorTextMax) \o Ellipsis ELSE txt

\* a row stored by an earlier request
EarlierRow ==
    TextAnalysis(1, << "o", "l", "d" >>,
                 ResultOf(FullObject, << >>, 500, "openai"))

InitBatch ==
    /\ text = << >>
    /\ OPENAI_API_KEY = "sk-live"
    /\ num_keywords = DefaultNumKeywords
    /\ pc = "loop"
    /\ content = << >>
    /\ primary = ""
    /\ llm_result = EmptyDict
    /\ analysis_method = ""
    /\ tagging = NoTagging
    /\ keywords = << >>
    /\ confidence_score = 0
    /\ result = NoResult
    /\ error = ""
    /\ calls = NoCalls
    /\ texts \in BatchTexts
    /\ loop_i = 0
    /\ analyses = << >>
    /\ errors = << >>
    /\ objects = << EarlierRow >>
    /\ response_data = NoResponse

\* BatchIteration leaving the loop at the first failure
BatchIterationStopsOnError ==
    /\ pc = "loop"
    /\ loop_i < Len(texts)
    /\ text' = texts[loop_i + 1]
    /\ \E service \in Services, tagged \in Taggings(texts[loop_i + 1]), db_up \in BOOLEAN :
         \E bucket \in (IF PrimaryReturns(OPENAI_API_KEY, service) THEN { 1 }
                        ELSE 1..Len(sample_topics)) :
           LET analysis_result == analyze_text_complete(texts[loop_i + 1], OPENAI_API_KEY,
                                                        service, bucket, tagged)
               raised == IF analysis_result.raised # "" THEN analysis_result.raised
                         ELSE CreateRaises(analysis_result.value, db_up)
               analysis == TextAnalysis(Len(objects) + 1, texts[loop_i + 1],
                                        analysis_result.value)
           IN  IF raised = ""
               THEN /\ objects' = Append(objects, analysis)
                    /\ analyses' = Append(analyses, analysis)
                    /\ errors' = errors
                    /\ loop_i' = loop_i + 1
               ELSE /\ errors' = Append(errors, [index |-> loop_i,
                                                 text |-> ErrorText(texts[loop_i + 1]),
                                                 error |-> raised])
                    /\ loop_i' = Len(texts)
                    /\ UNCHANGED << objects, analyses >>
    /\ UNCHANGED << OPENAI_API_KEY, num_keywords, pc, content, primary, llm_result,
                    analysis_method, tagging, keywords, confidence_score, result,
                    error, calls, texts, response_data >>

\* one turn of "for i, text in enumerate(texts)": the analysis, the row created
\* and appended to analyses, or the exception caught and appended to errors.
\* random.choice draws a bucket only when the mock analyzer runs.
BatchIteration ==
    /\ pc = "loop"
    /\ loop_i < Len(texts)
    /\ text' = texts[loop_i + 1]
    /\ \E service \in Services, tagged \in Taggings(texts[loop_i + 1]), db_up \in BOOLEAN :
         \E bucket \in (IF PrimaryReturns(OPENAI_API_KEY, service) THEN { 1 }
                        ELSE 1..Len(sample_topics)) :
           LET analysis_result == analyze_text_complete(texts[loop_i + 1], OPENAI_API_KEY,
                                                        service, bucket, tagged)
               raised == IF analysis_result.raised # "" THEN analysis_result.raised
                         ELSE CreateRaises(analysis_result.value, db_up)
               analysis == TextAnalysis(Len(objects) + 1, texts[loop_i + 1],
                                        analysis_result.value)
           IN  IF raised = ""
               THEN /\ objects' = Append(objects, analysis)
                    /\ analyses' = Append(analyses, analysis)
                    /\ errors' = errors
               ELSE /\ errors' = Append(errors, [index |-> loop_i,
                                                 text |-> ErrorText(texts[loop_i + 1]),
                                                 error |-> raised])
                    /\ UNCHANGED << objects, analyses >>
    /\ loop_i' = loop_i + 1
    /\ UNCHANGED << OPENAI_API_KEY, num_keywords, pc, content, primary, llm_result,
                    analysis_method, tagging, keywords, confidence_score, result,
                    error, calls, texts, response_data >>

\* after the loop: response_data (its 'errors' key, set only when there are
\* errors, is the empty list otherwise) and the 201 response
BatchRespond ==
    /\ pc = "loop"
    /\ loop_i = Len(texts)
    /\ response_data' = [analyses |-> analyses,
                         total_processed |-> Len(analyses),
                         total_requested |-> Len(texts),
                         success_count |-> Len(analyses),
                         error_count |-> Len(errors),
                         errors |-> errors]
    /\ pc' = "returned"
    /\ UNCHANGED << text, OPENAI_API_KEY, num_keywords, content, primary, llm_result,
                    analysis_method, tagging, keywords, confidence_score, result,
                    error, calls, texts, loop_i, analyses, errors, objects >>

NextBatch ==
    \/ BatchIteration
    \/ BatchRespond

SpecBatch == InitBatch /\ [][NextBatch]_vars

----------------------------------------------------------------------------
(* The claims                                                               *)

\* the text is empty or whitespace only
Blank(txt) == \A i \in 1..Len(txt) : txt[i] \in Whitespace

\* the key is absent (None or empty) or the placeholder
KeyAbsentOrPlaceholder ==
    OPENAI_API_KEY \in { "None", "", "your_openai_api_key_here" }

\* C1: every result analyze_text_complete returns, whatever became of the
\* primary analyzer, has a confidence_score from 0.0 to 1.0 (0..1000 thousandths).
C1_ConfidenceInRange ==
    /\ confidence_score >= 0 /\ confidence_score <= 1000
    /\ pc = "done" =>
         /\ ~Blank(text)
         /\ primary \in { "init_failed", "call_failed", "ok" }
         /\ result.confidence_score >= 0
         /\ result.confidence_score <= 1000

\* a result of the primary path with the highest score two keywords allow
C1_Witness ==
    /\ pc = "done"
    /\ primary = "ok"
    /\ Len(result.keywords) = 2
    /\ result.confidence_score = 950

\* C2: every returned result whose analysis_method is "mock" has
\* confidence_score <= 0.8 (800 thousandths).
C2_MockAtMostCap ==
    (pc = "done" /\ result.analysis_method = "mock") => result.confidence_score <= 800

\* a mock result of a text of two words, scored 0.85 * 0.7
C2_Witness ==
    /\ pc = "done"
    /\ result.analysis_method = "mock"
    /\ Len(result.keywords) = 2
    /\ result.confidence_score = 595

\* C3: on a text that is empty or whitespace only, analyze_text_complete raises
\* ValueError before any collaborator is constructed or invoked, and returns nothing.
C3_EmptyInputRejected ==
    (Blank(text) /\ pc # "start") =>
        /\ pc = "raised"
        /\ error = "ValueError"
        /\ calls = NoCalls
        /\ result = NoResult

\* a whitespace-only text was rejected
C3_Witness ==
    /\ Len(text) > 0
    /\ Blank(text)
    /\ pc = "raised"
    /\ error = "ValueError"

\* C4: with the key absent or the placeholder, the construction of the primary
\* analyzer fails before any request is made, and on a non-empty text
\* analyze_text_complete never raises and returns analysis_method = "mock".
C4_UnconfiguredFallsBack ==
    (KeyAbsentOrPlaceholder /\ ~Blank(text)) =>
        /\ pc \in { "start", "try", "except", "keywords", "score", "done" }
        /\ error = ""
        /\ calls.request = 0
        /\ calls.LLMAnalyzer > 0 => primary = "init_failed"
        /\ pc = "done" => result.analysis_method = "mock"

\* a result returned with the placeholder key
C4_Witness ==
    /\ OPENAI_API_KEY = "your_openai_api_key_here"
    /\ pc = "done"
    /\ result.analysis_method = "mock"
    /\ calls.LLMAnalyzer = 1
    /\ calls.MockAnalyzer = 1

\* C5: whatever the primary analyzer does, the only failure that leaves
\* analyze_text_complete is the empty-input error.
C5_OnlyEmptyInputFails ==
    pc = "raised" => (error = "ValueError" /\ Blank(text))

\* C6: analysis_method is "openai" exactly when the construction and the call
\* of the primary analyzer succeeded and "mock" otherwise; summary, title,
\* topics and sentiment of the result are the values of the dict that analyzer
\* returned (the defaults "", null, [] and "neutral" for a key the dict lacks).
C6_MethodAndFields ==
    pc = "done" =>
        /\ result.analysis_method = "openai" <=> primary = "ok"
        /\ result.analysis_method = "mock" <=> primary \in { "init_failed", "call_failed" }
        /\ result.analysis_method = "mock" =>
             \E bucket \in 1..Len(sample_topics) : llm_result = MockAnalyze(text, bucket)
        /\ result.summary =
             IF llm_result["summary"] = Missing THEN Str(<< >>) ELSE llm_result["summary"]
        /\ result.title =
             IF llm_result["title"] = Missing THEN Null ELSE llm_result["title"]
        /\ result.topics =
             IF llm_result["topics"] = Missing THEN List(<< >>) ELSE llm_result["topics"]
        /\ result.sentiment =
             IF llm_result["sentiment"] = Missing THEN Str(neutral)
             ELSE llm_result["sentiment"]

\* a result of the primary path that carries the four values of the reply
C6_Witness ==
    /\ pc = "done"
    /\ primary = "ok"
    /\ result.analysis_method = "openai"
    /\ result.summary = Str(LongSummary)
    /\ result.title = Str(TitleT)
    /\ result.topics = Topics(3)
    /\ result.sentiment = Str(positive)

\* the reply holds a well-formed JSON object as a substring
HasJsonObject(s) ==
    \E a \in Indices(s, "{") : \E b \in Indices(s, "}") :
        a < b /\ JsonLoads(SubSeq(s, a, b)).ok

\* the parse of the first well-formed JSON object of the reply
FirstJsonObject(s) ==
    LET a == MinOf({ i \in Indices(s, "{") :
                       \E b \in Indices(s, "}") : i < b /\ JsonLoads(SubSeq(s, i, b)).ok })
        b == MinOf({ j \in Indices(s, "}") : a < j /\ JsonLoads(SubSeq(s, a, j)).ok })
    IN  JsonLoads(SubSeq(s, a, b)).value

\* C7: when the reply holds no JSON object, the primary analyzer returns the
\* whole trimmed reply as summary, title null, topics ["general"], sentiment
\* "neutral", and analysis_method stays "openai".
C7_NoJsonGivesRawText ==
    [][(pc = "parse" /\ ~HasJsonObject(content)) =>
          /\ pc' = "keywords"
          /\ llm_result' = Dict(Str(content), Null, List(<< general >>), Str(neutral))
          /\ analysis_method' = "openai"]_vars

\* C8: when the reply holds a well-formed JSON object as a substring, whatever
\* surrounds it, the primary analyzer returns the parse of the first such object.
C8_FirstJsonObjectParsed ==
    [][(pc = "parse" /\ HasJsonObject(content)) =>
          /\ pc' = "keywords"
          /\ llm_result' = FirstJsonObject(content)]_vars

\* the tokens extract_keywords retained and counted, on the path it took
Retained == IF tagging.raised THEN RegexNouns(text) ELSE PosNouns(text, tagging.nouns)

\* where w is first encountered among the retained tokens
FirstSeen(w) == MinOf({ i \in 1..Len(Retained) : Retained[i] = w })

\* C9: extract_keywords returns at most count tokens, none a stopword or of
\* length <= 2, in order of non-increasing frequency among the retained
\* tokens, ties in first-encountered order, on both paths.
C9_KeywordsRanked ==
    pc = "score" =>
        /\ Len(keywords) <= num_keywords
        /\ \A i \in 1..Len(keywords) :
             /\ keywords[i] \notin stop_words
             /\ Len(keywords[i]) > 2
             /\ Count(Retained, keywords[i]) >= 1
        /\ \A i, j \in 1..Len(keywords) :
             i < j =>
               \/ Count(Retained, keywords[i]) > Count(Retained, keywords[j])
               \/ /\ Count(Retained, keywords[i]) = Count(Retained, keywords[j])
                  /\ FirstSeen(keywords[i]) < FirstSeen(keywords[j])

\* two keywords of the same frequency, returned in the order of the text, a
\* stopword of the text left out
C9_Witness ==
    /\ pc = "score"
    /\ Len(keywords) = 2
    /\ Count(Retained, keywords[1]) = Count(Retained, keywords[2])
    /\ FirstSeen(keywords[1]) < FirstSeen(keywords[2])
    /\ \E i \in 1..Len(Split(text)) : Split(text)[i] \in stop_words

\* the table of contributions, in hundredths
TableSum(txt, d, kws) ==
    LET trimmed == Len(Strip(txt))
        summary == IF d["summary"].t = "str" THEN Len(Strip(d["summary"].s)) ELSE 0
        topics == IF d["topics"].t = "list" THEN Len(d["topics"].l) ELSE 0
    IN  (IF trimmed > 10 THEN 20 ELSE 0)
        + (IF trimmed > 100 THEN 10 ELSE 0)
        + (IF trimmed > 500 THEN 10 ELSE 0)
        + (IF summary > 20 THEN 20 ELSE 0)
        + (IF d["title"].t = "str" THEN 10 ELSE 0)
        + (IF topics >= 3 THEN 10 ELSE 0)
        + (IF topics = 2 THEN 5 ELSE 0)
        + (IF Len(kws) >= 3 THEN 10 ELSE 0)
        + (IF Len(kws) = 2 THEN 5 ELSE 0)
        + (IF d["sentiment"].t = "str" /\ d["sentiment"].s # neutral THEN 10 ELSE 0)

\* an analyzer output of the contract's shape, its title null or a non-empty string
ScoredOutput(d) ==
    /\ d["summary"].t \in { "str", "null", "missing" }
    /\ d["title"].t \in { "null", "missing" } \/ (d["title"].t = "str" /\ d["title"].s # << >>)
    /\ d["topics"].t \in { "list", "missing" }
    /\ d["sentiment"].t \in { "str", "missing" }

\* every condition of the table holds
AllConditions(txt, d, kws) ==
    /\ Len(Strip(txt)) > 500
    /\ d["summary"].t = "str" /\ Len(Strip(d["summary"].s)) > 20
    /\ d["title"].t = "str"
    /\ d["topics"].t = "list" /\ Len(d["topics"].l) >= 3
    /\ Len(kws) >= 3
    /\ d["sentiment"].t = "str" /\ d["sentiment"].s # neutral

\* C10: for an analyzer output whose title is null or a non-empty string,
\* calculate_confidence_score returns the sum of the table's contributions
\* clamped to [0, 1], and exactly 1.0 when every condition holds.
C10_ScoreIsTableSum ==
    (pc # "score" /\ ScoredOutput(llm_result)) =>
        /\ pc = "done"
        /\ result.confidence_score = 10 * Min(Max(TableSum(text, llm_result, keywords), 0), 100)
        /\ AllConditions(text, llm_result, keywords) => result.confidence_score = 1000

\* every condition of the table holds and the score is 1.0
C10_Witness ==
    /\ pc = "done"
    /\ AllConditions(text, llm_result, keywords)
    /\ result.confidence_score = 1000

\* what the title added to the returned score, in thousandths: the score
\* returned less the score of the same output with its title null
TitleContribution ==
    result.confidence_score
    - 10 * calculate_confidence_score(text, [llm_result EXCEPT !["title"] = Null],
                                      keywords).score

\* the title is present: the key is there and its value is not null
TitlePresent == llm_result["title"].t \notin { "missing", "null" }

\* the title is a non-empty string or a non-zero number
TitleNonEmpty ==
    \/ llm_result["title"].t = "str" /\ llm_result["title"].s # << >>
    \/ llm_result["title"].t = "num" /\ llm_result["title"].n # 0

\* C11 as claimed: calculate_confidence_score adds 0.10 whenever the title is
\* present (non-null), the empty string included.
C11_TitlePresentScores ==
    (pc = "done" /\ TitlePresent) => TitleContribution = 100

\* C11 as amended: calculate_confidence_score adds 0.10 exactly when the title
\* is present and non-empty; an absent, null or empty-string title adds nothing.
C11_TitleNonEmptyScores ==
    pc = "done" => TitleContribution = (IF TitleNonEmpty THEN 100 ELSE 0)

\* a scored output whose title is the empty string, and the title added nothing
C11_Witness ==
    /\ pc = "done"
    /\ llm_result["title"] = Str(<< >>)
    /\ TitleContribution = 0
    /\ result.confidence_score > 0

\* the positions of s at which the word w starts, whatever the case of s
OccurrencesOf(w, s) ==
    { i \in 1..(Len(s) - Len(w) + 1) : \A j \in 1..Len(w) : LowerChar(s[i + j - 1]) = w[j] }

\* the occurrences of the words of a list in s, each occurrence counted
OccurrenceCount(words, s) ==
    Cardinality({ << k, i >> \in (1..Len(words)) \X (1..Len(s)) : i \in OccurrencesOf(words[k], s) })

\* the words of a list that occur in s, each word counted once
PresentCount(words, s) ==
    Cardinality({ k \in 1..Len(words) : OccurrencesOf(words[k], s) # {} })

\* the sentiment a positive and a negative count decide
Vote(positive_count, negative_count) ==
    IF positive_count > negative_count THEN positive
    ELSE IF negative_count > positive_count THEN negative
    ELSE neutral

\* C12 as claimed: the fallback sentiment is decided by the occurrences of
\* positive-list and negative-list words in the text, a word that occurs
\* several times counting several times.
C12_SentimentByOccurrences ==
    pc = "keywords" =>
        llm_result["sentiment"] = Str(Vote(OccurrenceCount(positive_keywords, text),
                                           OccurrenceCount(negative_keywords, text)))

\* C12 as amended: the fallback sentiment is decided by how many positive-list
\* words and how many negative-list words occur in the text (case-insensitive
\* substring match), each listed word counting once however often it occurs.
C12_SentimentByPresentWords ==
    pc = "keywords" =>
        llm_result["sentiment"] = Str(Vote(PresentCount(positive_keywords, text),
                                           PresentCount(negative_keywords, text)))

\* a positive word twice and a negative word once: one word of each list, neutral
C12_Witness ==
    /\ pc = "keywords"
    /\ OccurrenceCount(positive_keywords, text) = 2
    /\ PresentCount(positive_keywords, text) = 1
    /\ OccurrenceCount(negative_keywords, text) = 1
    /\ llm_result["sentiment"] = Str(neutral)

\* the analyzer step is over: the primary analyzer returned or the mock one ran
AnalyzerStepDone == primary = "ok" \/ calls.MockAnalyzer = 1

\* C13: in a call on non-empty text the primary analyzer is constructed and
\* called at most once each; the mock analyzer runs exactly once if the primary
\* attempt failed and never otherwise; extract_keywords runs exactly once, on
\* the text of the call, after the analyzer step and before the score is computed.
C13_OneAttemptOneFallback ==
    ~Blank(text) =>
        /\ calls.LLMAnalyzer <= 1 /\ calls.request <= 1
        /\ calls.request = 1 => calls.LLMAnalyzer = 1
        /\ calls.MockAnalyzer <= 1
        /\ calls.MockAnalyzer = 1 => primary \in { "init_failed", "call_failed" }
        /\ primary = "ok" => calls.MockAnalyzer = 0
        /\ pc \in { "keywords", "score", "done", "raised" } =>
              calls.MockAnalyzer = (IF primary = "ok" THEN 0 ELSE 1)
        /\ calls.extract_keywords <= 1
        /\ calls.extract_keywords = 1 => AnalyzerStepDone
        /\ calls.calculate_confidence_score <= 1
        /\ calls.calculate_confidence_score = 1 => calls.extract_keywords = 1
        /\ pc \in { "score", "done", "raised" } =>
              /\ calls.extract_keywords = 1
              /\ keywords = extract_keywords(text, DefaultNumKeywords, tagging)

\* a result returned after the request failed: one construction, one request,
\* one run of the mock analyzer, one keyword extraction
C13_Witness ==
    /\ pc = "done"
    /\ primary = "call_failed"
    /\ calls.LLMAnalyzer = 1
    /\ calls.request = 1
    /\ calls.MockAnalyzer = 1
    /\ calls.extract_keywords = 1
    /\ calls.calculate_confidence_score = 1

\* the reply has a "{" followed later by a "}" and the text they enclose, from
\* the first "{" to the last "}", is not valid JSON
Unparseable(s) ==
    /\ \E a \in Indices(s, "{") : \E b \in Indices(s, "}") : a < b
    /\ ~JsonLoads(SubSeq(s, MinOf(Indices(s, "{")), MaxOf(Indices(s, "}")))).ok

\* C14: a reply that cannot be parsed as JSON is degraded gracefully: the
\* primary analyzer does not raise for it, the mock analyzer is not used and
\* analysis_method stays "openai".
C14_UnparseableReplyDegraded ==
    [][(pc = "parse" /\ Unparseable(content)) =>
          /\ primary' = "ok"
          /\ pc' # "except"
          /\ analysis_method' = "openai"]_vars

\* the first five whitespace-separated words of the text, joined by single spaces
FirstFiveJoined ==
    LET words == Split(text)
    IN  Join(SubSeq(words, 1, Min(5, Len(words))), << " " >>)

\* t is s title-cased: the same characters but for case, a letter upper-case
\* exactly when it starts s or follows a character that is not a letter
TitleCaseOf(t, s) ==
    /\ Len(t) = Len(s)
    /\ \A i \in 1..Len(s) :
          /\ LowerChar(t[i]) = LowerChar(s[i])
          /\ IsLetter(s[i]) => (t[i] \in Uppers <=> (i = 1 \/ ~IsLetter(s[i-1])))

\* C15: for a text with a word in it, the title of the fallback analyzer is the
\* first 5 whitespace-separated words joined by single spaces and title-cased;
\* when that is longer than 50 characters it is cut to 47 and ends with "...";
\* the title is never longer than 50 characters and never empty.
C15_FallbackTitle ==
    pc = "keywords" =>
        LET title == llm_result["title"].s
        IN  /\ llm_result["title"].t = "str"
            /\ Len(title) > 0 /\ Len(title) <= 50
            /\ IF Len(FirstFiveJoined) <= 50
               THEN TitleCaseOf(title, FirstFiveJoined)
               ELSE /\ Len(title) = 50
                    /\ SubSeq(title, 48, 50) = << ".", ".", "." >>
                    /\ TitleCaseOf(SubSeq(title, 1, 47), SubSeq(FirstFiveJoined, 1, 47))

\* a text of six words whose first five pass 50 characters: the title is cut
C15_Witness ==
    /\ pc = "keywords"
    /\ Len(Split(text)) = 6
    /\ Len(FirstFiveJoined) > 50
    /\ Len(llm_result["title"].s) = 50
    /\ SubSeq(llm_result["title"].s, 48, 50) = << ".", ".", "." >>

SucceededIndices ==
    { k \in 0..(loop_i - 1) : \A j \in 1..Len(errors) : errors[j].index # k }

\* the n-th smallest element of a set of numbers
NthOf(S, n) == CHOOSE x \in S : Cardinality({ y \in S : y < x }) = n - 1

\* s is t or t with elements appended
Extends(s, t) == Len(s) >= Len(t) /\ SubSeq(s, 1, Len(t)) = t

\* every text taken so far left exactly one record or one error entry; the
\* records are those of the texts without an error entry, in input order, and
\* are the last rows of the table; the response reports these counts
BatchAccounts ==
    /\ Len(analyses) + Len(errors) = loop_i
    /\ \A j \in 1..Len(errors) : errors[j].index \in 0..(loop_i - 1)
    /\ \A j \in 1..(Len(errors) - 1) : errors[j].index < errors[j + 1].index
    /\ Len(analyses) = Cardinality(SucceededIndices)
    /\ \A k \in 1..Len(analyses) :
          analyses[k].original_text = texts[NthOf(SucceededIndices, k) + 1]
    /\ Len(objects) >= Len(analyses)
    /\ SubSeq(objects, Len(objects) - Len(analyses) + 1, Len(objects)) = analyses
    /\ pc = "returned" =>
          /\ loop_i = Len(texts)
          /\ response_data.total_requested = Len(texts)
          /\ response_data.success_count + response_data.error_count = Len(texts)
          /\ response_data.success_count = Len(analyses)
          /\ response_data.error_count = Len(errors)
          /\ response_data.analyses = analyses

\* a step of the loop takes one text, stores one row or adds one error entry,
\* and removes nothing
BatchStepKeeps ==
    /\ Extends(objects', objects)
    /\ Extends(analyses', analyses)
    /\ Extends(errors', errors)
    /\ Len(objects') - Len(objects) = Len(analyses') - Len(analyses)
    /\ loop_i' # loop_i =>
          /\ loop_i' = loop_i + 1
          /\ (Len(analyses') - Len(analyses)) + (Len(errors') - Len(errors)) = 1

\* C17: in batch_analyze_texts every text produces exactly one stored record or
\* one error entry: success_count + error_count = total_requested, the rows
\* newly stored are the success_count analyses, in input order, and a failure
\* on one text neither stops the later texts nor removes rows already stored.
C17_BatchAccounting == [](BatchAccounts) /\ [][BatchStepKeeps]_vars

\* a request of two texts answered after the first failed and the second was
\* stored beside the row of an earlier request
C17_Witness ==
    /\ pc = "returned"
    /\ Len(texts) = 2
    /\ texts[1] # texts[2]
    /\ Len(errors) = 1 /\ errors[1].index = 0
    /\ Len(analyses) = 1 /\ analyses[1].original_text = texts[2]
    /\ objects = << EarlierRow, analyses[1] >>
    /\ response_data.success_count = 1
    /\ response_data.error_count = 1

====
